---- MODULE Spec2Model ----
(***************************************************************************)
(* State-machine model of server.js, the REST backend of the ZumbaWithPooh *)
(* gallery: the Express routes over the five Mongoose collections, the     *)
(* Cloudinary upload and the contact mail.                                 *)
(*                                                                         *)
(* Every `await` of a handler is one atomic step of the model: the event   *)
(* loop may run another request's step between two awaits of one handler.  *)
(* A store or adapter call either takes effect or rejects; a rejection     *)
(* leaves the store as it was and sends the handler to its catch block.    *)
(*                                                                         *)
(* JSON scalars of request bodies and query strings are modelled by their  *)
(* text; numbers held by the store are integers.                           *)
(***************************************************************************)
EXTENDS Integers, Sequences, FiniteSets, TLC

\* ------------------------------------------------------------------ bounds

\* Requests issued in a run of one group of routes, one request at a time.
LongRun == 3
\* Requests issued in a run with two connections, or over every route.
ShortRun == 2
\* Ticks of the wall clock in one run.
MaxClock == 2

\* ------------------------------------------------------------- value sets

\* The connections that can have a request in flight at the same time.
Reqs == {1, 2}
\* The sequential client: one connection, one request at a time.
SeqReqs == {1}

\* A field the request does not carry (JavaScript's undefined).
Undefined == "undefined"

Branches == {"b1", "b2"}
\* Form values of the fields of POST /api/upload.
BranchInputs == Branches \cup {Undefined, ""}
CardNumInputs == {"1", "", "abc", "Infinity", Undefined}
SlotInputs == {"before", "after", "side", Undefined, ""}
\* Query values of GET /api/images.
CardNumQueries == {"0", "1", "", "abc", Undefined}
SlotQueries == {"before", "after", Undefined}

\* JavaScript truthiness of a string-or-undefined value.
Truthy(v) == v # Undefined /\ v # ""

\* Number(v) of a form value: [finite, n]; NaN and Infinity are not finite.
ToNumber(v) ==
  CASE v = "" -> [finite |-> TRUE, n |-> 0]
    [] v = "0" -> [finite |-> TRUE, n |-> 0]
    [] v = "1" -> [finite |-> TRUE, n |-> 1]
    [] v = "2" -> [finite |-> TRUE, n |-> 2]
    [] OTHER -> [finite |-> FALSE, n |-> 0]

\* Mongoose's cast of a value to the schema type Number: [ok, n].
CastNumber(v) ==
  CASE v = "0" -> [ok |-> TRUE, n |-> 0]
    [] v = "1" -> [ok |-> TRUE, n |-> 1]
    [] v = "2" -> [ok |-> TRUE, n |-> 2]
    [] OTHER -> [ok |-> FALSE, n |-> 0]

\* The enum of imageSchema.slot.
SlotEnum == {"before", "after"}

\* The paths of a card of cardDataSchema, besides the generated _id.
CardNumberPaths == {"cardNum"}
CardStringPaths == {"beforeImg", "afterImg", "details", "name", "beforeWeight", "afterWeight"}
CardPaths == CardNumberPaths \cup CardStringPaths

\* The secure_url Cloudinary gives its n-th asset.
SecureUrl(n) == "u" \o ToString(n)

VARIABLES
  pc,         \* pc[r]: where the handler of the request on connection r stands
  req,        \* req[r]: the request
  loc,        \* loc[r]: the handler's local variables
  resp,       \* resp[r]: the response sent
  Image, CardData, Offer, ContactInquiry, VideoReview,   \* the collections
  cloud,      \* the assets held by Cloudinary
  outbox,     \* the mails the relay accepted
  mailTransporter, CONTACT_TO_EMAIL, CONTACT_FROM_EMAIL,
  now,        \* the wall clock
  nextId,     \* the ObjectIds generated so far
  left,       \* requests the clients have yet to issue
  lastUpload, \* history: per (cardNum, slot), how the last finished upload ended
  lastSave,   \* history: per branch, the cards of the last successful save
  lastOffer   \* history: the last successful write of the offer: the request, what
              \* the store held before it, the newest updatedAt stored so far

store == <<Image, CardData, Offer, ContactInquiry, VideoReview>>
adapters == <<cloud, outbox>>
config == <<mailTransporter, CONTACT_TO_EMAIL, CONTACT_FROM_EMAIL>>
history == <<lastUpload, lastSave, lastOffer>>
vars == <<pc, req, loc, resp, store, adapters, config, now, nextId, left, history>>

NoReq == [kind |-> "none"]
NoLoc == [none |-> TRUE]
NoResp == [status |-> 0]

\* ------------------------------------------------------- request plumbing

\* A request arrives on an idle connection.
Begin(r, request) ==
  /\ pc[r] = "idle"
  /\ left > 0
  /\ left' = left - 1
  /\ req' = [req EXCEPT ![r] = request]

\* res.status(status).json(body): the handler is over.
Send(r, status, body) ==
  /\ pc' = [pc EXCEPT ![r] = "done"]
  /\ resp' = [resp EXCEPT ![r] = [status |-> status, body |-> body]]
  /\ loc' = [loc EXCEPT ![r] = NoLoc]

\* The handler goes on to its next await.
Goto(r, label, locals) ==
  /\ pc' = [pc EXCEPT ![r] = label]
  /\ loc' = [loc EXCEPT ![r] = locals]
  /\ UNCHANGED resp

\* The client has read the response; the connection is idle again.
Finish(r) ==
  /\ pc[r] = "done"
  /\ pc' = [pc EXCEPT ![r] = "idle"]
  /\ req' = [req EXCEPT ![r] = NoReq]
  /\ resp' = [resp EXCEPT ![r] = NoResp]
  /\ UNCHANGED <<loc, store, adapters, config, now, nextId, left, history>>

\* The permutations of a finite set that ascend (dir = 1) or descend (dir = -1)
\* by the date field: find().sort({field: dir}); the order of ties is the store's.
SortBy(S, field, dir) ==
  {s \in [1..Cardinality(S) -> S] :
     /\ \A i, j \in 1..Cardinality(S) : i # j => s[i] # s[j]
     /\ \A i, j \in 1..Cardinality(S) : i < j => dir * s[i][field] <= dir * s[j][field]}

\* ------------------------------------------------------- POST /api/upload

\* Every upload of card 1 for a branch and a slot of the enum, and one of them
\* with each single field missing, empty or malformed.
UploadInputs ==
  LET all == [kind : {"upload"}, file : BOOLEAN, branch : BranchInputs,
              cardNum : CardNumInputs, slot : SlotInputs]
      good(q) == q.file /\ q.branch \in Branches /\ q.cardNum = "1" /\ q.slot \in SlotEnum
      base == [kind |-> "upload", file |-> TRUE, branch |-> "b1", cardNum |-> "1",
               slot |-> "before"]
      differ(q) == {f \in DOMAIN q : q[f] # base[f]}
  IN {q \in all : good(q) \/ Cardinality(differ(q)) = 1}

\* The guard without its test of the slot.
UploadRejectsWithoutSlot(q) == ~q.file \/ ~Truthy(q.branch) \/ ~ToNumber(q.cardNum).finite

\* The guard of line 183.
UploadRejects(q) ==
  ~q.file \/ ~Truthy(q.branch) \/ ~ToNumber(q.cardNum).finite \/ ~Truthy(q.slot)

\* How the upload's catch block ends the request.
UploadFails(r) ==
  /\ Send(r, 500, [error |-> "Image upload failed"])
  /\ lastUpload' = [lastUpload EXCEPT ![<<ToNumber(req[r].cardNum).n, req[r].slot>>] = "failed"]
  /\ UNCHANGED <<req, lastSave, lastOffer>>

UploadValidate(r) ==
  \E q \in UploadInputs :
    /\ Begin(r, q)
    /\ IF UploadRejects(q)
         THEN Send(r, 400, [error |-> "Missing image, branch, cardNum or slot"])
         ELSE Goto(r, "upload_cloudinary",
                   [cardNumNum |-> ToNumber(q.cardNum).n, secure_url |-> ""])
    /\ UNCHANGED <<store, adapters, config, now, nextId, history>>

\* An upload whose promise resolves whatever the callback received: after an
\* adapter failure the handler goes on to the store with no url.
UploadToCloudinaryIgnoringFailure(r) ==
  /\ pc[r] = "upload_cloudinary"
  /\ \/ /\ cloud' = cloud \cup {SecureUrl(Cardinality(cloud) + 1)}
        /\ Goto(r, "upload_deleteMany",
                [loc[r] EXCEPT !.secure_url = SecureUrl(Cardinality(cloud) + 1)])
     \/ /\ Goto(r, "upload_deleteMany", loc[r])
        /\ UNCHANGED cloud
  /\ UNCHANGED <<req, history, store, outbox, config, now, nextId, left>>

\* await uploadToCloudinary(req.file.buffer)
UploadToCloudinary(r) ==
  /\ pc[r] = "upload_cloudinary"
  /\ \/ /\ cloud' = cloud \cup {SecureUrl(Cardinality(cloud) + 1)}
        /\ Goto(r, "upload_deleteMany",
                [loc[r] EXCEPT !.secure_url = SecureUrl(Cardinality(cloud) + 1)])
        /\ UNCHANGED <<req, history>>
     \/ /\ UploadFails(r)
        /\ UNCHANGED cloud
  /\ UNCHANGED <<store, outbox, config, now, nextId, left>>

\* An upload that leaves the old images of the pair.
DeleteManyImagesNone(coll, cardNum, slot) == coll

\* Image.deleteMany({cardNum, slot}) on a collection.
DeleteManyImages(coll, cardNum, slot) ==
  {d \in coll : ~(d.cardNum = cardNum /\ d.slot = slot)}

\* A delete that is scoped by the branch as well: of the images of the pair it
\* removes those whose url a card of the uploading branch carries.
UploadDeleteManyOfBranch(r) ==
  /\ pc[r] = "upload_deleteMany"
  /\ \/ /\ Image' = {d \in Image :
                       ~( /\ d.cardNum = loc[r].cardNumNum
                          /\ d.slot = req[r].slot
                          /\ \E c \in CardData :
                               /\ c.branch = req[r].branch
                               /\ \E i \in 1..Len(c.cards) :
                                    \/ /\ "beforeImg" \in DOMAIN c.cards[i]
                                       /\ c.cards[i].beforeImg = d.url
                                    \/ /\ "afterImg" \in DOMAIN c.cards[i]
                                       /\ c.cards[i].afterImg = d.url )}
        /\ Goto(r, "upload_imageSave", loc[r])
        /\ UNCHANGED <<req, history>>
     \/ /\ UploadFails(r)
        /\ UNCHANGED Image
  /\ UNCHANGED <<CardData, Offer, ContactInquiry, VideoReview, adapters, config, now, nextId, left>>

\* await Image.deleteMany({ cardNum: cardNumNum, slot })
UploadDeleteMany(r) ==
  /\ pc[r] = "upload_deleteMany"
  /\ \/ /\ Image' = DeleteManyImages(Image, loc[r].cardNumNum, req[r].slot)
        /\ Goto(r, "upload_imageSave", loc[r])
        /\ UNCHANGED <<req, history>>
     \/ /\ UploadFails(r)
        /\ UNCHANGED Image
  /\ UNCHANGED <<CardData, Offer, ContactInquiry, VideoReview, adapters, config, now, nextId, left>>

\* new Image({url, cardNum, slot}) and await image.save(): the document is
\* validated against imageSchema before it is inserted.
UploadImageSave(r) ==
  /\ pc[r] = "upload_imageSave"
  /\ \/ /\ req[r].slot \in SlotEnum
        /\ Image' = Image \cup {[_id |-> nextId + 1, url |-> loc[r].secure_url,
                                 cardNum |-> loc[r].cardNumNum, slot |-> req[r].slot,
                                 createdAt |-> now]}
        /\ nextId' = nextId + 1
        /\ Goto(r, "upload_findOne", loc[r])
        /\ UNCHANGED <<req, history>>
     \/ /\ UploadFails(r)
        /\ UNCHANGED <<Image, nextId>>
  /\ UNCHANGED <<CardData, Offer, ContactInquiry, VideoReview, adapters, config, now, left>>

\* Model.findOne(filter): the first matching document in insertion order, or
\* none. S is the set of matching documents.
FindOne(S) ==
  IF S = {} THEN [found |-> FALSE]
  ELSE [found |-> TRUE, doc |-> CHOOSE d \in S : \A e \in S : d._id <= e._id]

\* A find that compares the stored number with the cardNum string of the form:
\* no card ever matches.
FindCardByString(cards, cardNumNum) == 0

\* cardData.cards.find(c => c.cardNum === cardNumNum): the index of the first
\* such card, 0 if there is none.
FindCard(cards, cardNumNum) ==
  LET hits == {i \in 1..Len(cards) :
                 "cardNum" \in DOMAIN cards[i] /\ cards[i].cardNum = cardNumNum}
  IN IF hits = {} THEN 0 ELSE CHOOSE i \in hits : \A j \in hits : i <= j

\* card[path] = value
SetPath(card, path, value) ==
  [f \in DOMAIN card \cup {path} |-> IF f = path THEN value ELSE card[f]]

\* Lines 227-228: the path of the card the slot writes, and the card after it.
SetSlotImg(card, slot, url) ==
  IF slot = "before" THEN SetPath(card, "beforeImg", url)
  ELSE IF slot = "after" THEN SetPath(card, "afterImg", url)
  ELSE card

\* await CardData.findOne({ branch }) and the synchronous lines 217-228 after it:
\* the document to save, the card touched, and how save() will write it.
UploadFindOne(r) ==
  /\ pc[r] = "upload_findOne"
  /\ \/ LET hit == FindOne({d \in CardData : d.branch = req[r].branch})
            isNew == ~hit.found
            cardData == IF hit.found THEN hit.doc
                        ELSE [_id |-> nextId + 1, branch |-> req[r].branch,
                              cards |-> <<>>, __v |-> 0]
            ids == IF isNew THEN nextId + 1 ELSE nextId
            at == FindCard(cardData.cards, loc[r].cardNumNum)
            pushed == at = 0
            idx == IF pushed THEN Len(cardData.cards) + 1 ELSE at
            card0 == IF pushed THEN [cardNum |-> loc[r].cardNumNum, _id |-> ids + 1]
                     ELSE cardData.cards[at]
            card == SetSlotImg(card0, req[r].slot, loc[r].secure_url)
        IN /\ nextId' = IF pushed THEN ids + 1 ELSE ids
           /\ Goto(r, "upload_cardSave",
                   [cardNumNum |-> loc[r].cardNumNum, secure_url |-> loc[r].secure_url,
                    isNew |-> isNew, pushed |-> pushed, idx |-> idx, card |-> card,
                    cardData |-> cardData])
           /\ UNCHANGED <<req, history>>
     \/ /\ UploadFails(r)
        /\ UNCHANGED nextId
  /\ UNCHANGED <<store, adapters, config, now, left>>

\* document.save() of a CardData document as the upload left it. A new document
\* is inserted. A loaded one is updated by _id: a pushed card by $push, which
\* increments __v; a card changed in place by $set on its position, which
\* requires the __v that was loaded. [ok, coll]; not ok is the rejection
\* (DocumentNotFoundError, VersionError).
SaveCardData(coll, l) ==
  LET same == {d \in coll : d._id = l.cardData._id}
      cur == CHOOSE d \in same : TRUE
  IN IF l.isNew
       THEN [ok |-> TRUE,
             coll |-> coll \cup {[l.cardData EXCEPT !.cards = Append(@, l.card)]}]
     ELSE IF same = {} THEN [ok |-> FALSE, coll |-> coll]
     ELSE IF l.pushed
       THEN [ok |-> TRUE,
             coll |-> (coll \ {cur}) \cup
                        {[cur EXCEPT !.cards = Append(@, l.card), !.__v = @ + 1]}]
     ELSE IF cur.__v # l.cardData.__v THEN [ok |-> FALSE, coll |-> coll]
     ELSE [ok |-> TRUE,
           coll |-> (coll \ {cur}) \cup {[cur EXCEPT !.cards[l.idx] = l.card]}]

\* await cardData.save() and the 201.
UploadCardSave(r) ==
  /\ pc[r] = "upload_cardSave"
  /\ \/ /\ SaveCardData(CardData, loc[r]).ok
        /\ CardData' = SaveCardData(CardData, loc[r]).coll
        /\ Send(r, 201, [url |-> loc[r].secure_url, cardNum |-> loc[r].cardNumNum,
                         slot |-> req[r].slot, branch |-> req[r].branch])
        /\ lastUpload' = [lastUpload EXCEPT ![<<loc[r].cardNumNum, req[r].slot>>] =
                                              loc[r].secure_url]
        /\ lastSave' = [lastSave EXCEPT ![req[r].branch] = [known |-> FALSE, cards |-> <<>>]]
        /\ UNCHANGED <<req, lastOffer>>
     \/ /\ UploadFails(r)
        /\ UNCHANGED CardData
  /\ UNCHANGED <<Image, Offer, ContactInquiry, VideoReview, adapters, config, now, nextId, left>>

\* -------------------------------------------------------- GET /api/images

ImagesQueries == [kind : {"images"}, cardNum : CardNumQueries, slot : SlotQueries]

\* Lines 249-253: the filter is built from the truthy query values; the query
\* casts filter.cardNum to Number. [ok, docs]; not ok is the CastError.
FindImages(coll, q) ==
  IF Truthy(q.cardNum) /\ ~CastNumber(q.cardNum).ok THEN [ok |-> FALSE, docs |-> {}]
  ELSE [ok |-> TRUE,
        docs |-> {d \in coll :
                    /\ Truthy(q.cardNum) => d.cardNum = CastNumber(q.cardNum).n
                    /\ Truthy(q.slot) => d.slot = q.slot}]

GetImages(r) ==
  \E q \in ImagesQueries :
    /\ Begin(r, q)
    /\ \/ /\ FindImages(Image, q).ok
          /\ \E images \in SortBy(FindImages(Image, q).docs, "createdAt", 1) :
               Send(r, 200, images)
       \/ Send(r, 500, [error |-> "Failed to load images"])
    /\ UNCHANGED <<store, adapters, config, now, nextId, history>>

\* ---------------------------------------------------- POST /api/save-cards

\* Cards a client posts: one of schema paths only, one with a path the schema
\* does not have, one whose cardNum is no number.
CardAnn == [cardNum |-> "1", name |-> "Ann", beforeWeight |-> "80"]
CardBob == [cardNum |-> "2", beforeImg |-> "x", caption |-> "hi"]
CardBad == [cardNum |-> "abc", name |-> "Cy"]
CardsInputs ==
  {[isArray |-> FALSE, items |-> <<>>]} \cup
  {[isArray |-> TRUE, items |-> a] :
     a \in {<<>>, <<CardAnn>>, <<CardBob, CardAnn>>, <<CardBad>>}}

SaveCardsInputs == [kind : {"save-cards"}, branch : BranchInputs, cards : CardsInputs]

\* The guard of line 264.
SaveCardsRejects(q) == ~Truthy(q.branch) \/ ~q.cards.isArray

\* A posted card as the cards array of cardDataSchema holds it: the paths of
\* the schema only (strict), cardNum cast to Number, and a generated _id.
CastCard(c, id) ==
  [f \in (DOMAIN c \cap CardPaths) \cup {"_id"} |->
     IF f = "_id" THEN id
     ELSE IF f \in CardNumberPaths THEN CastNumber(c[f]).n
     ELSE c[f]]

\* Whether validation accepts the posted cards: every Number path casts.
CardsValid(items) ==
  \A i \in 1..Len(items) :
    \A f \in DOMAIN items[i] \cap CardNumberPaths : CastNumber(items[i][f]).ok

\* new CardData({ branch, cards }): the first id is the document's, the next
\* ones the cards'.
NewCardData(branch, items, id) ==
  [_id |-> id + 1, branch |-> branch, __v |-> 0,
   cards |-> [i \in 1..Len(items) |-> CastCard(items[i], id + 1 + i)]]

SaveCardsValidate(r) ==
  \E q \in SaveCardsInputs :
    /\ Begin(r, q)
    /\ IF SaveCardsRejects(q)
         THEN Send(r, 400, [error |-> "Invalid payload"])
         ELSE Goto(r, "save_deleteMany", NoLoc)
    /\ UNCHANGED <<store, adapters, config, now, nextId, history>>

\* CardData.deleteMany({ branch }) on a collection.
DeleteManyCardData(coll, branch) == {d \in coll : d.branch # branch}

\* await CardData.deleteMany({ branch })
SaveCardsDeleteMany(r) ==
  /\ pc[r] = "save_deleteMany"
  /\ \/ /\ CardData' = DeleteManyCardData(CardData, req[r].branch)
        /\ Goto(r, "save_insert", NoLoc)
     \/ /\ Send(r, 500, [error |-> "Failed to save cards"])
        /\ UNCHANGED CardData
  /\ UNCHANGED <<req, Image, Offer, ContactInquiry, VideoReview, adapters, config, now,
                 nextId, left, history>>

\* await new CardData({ branch, cards }).save() and the response.
SaveCardsInsert(r) ==
  /\ pc[r] = "save_insert"
  /\ \/ /\ CardsValid(req[r].cards.items)
        /\ CardData' = CardData \cup {NewCardData(req[r].branch, req[r].cards.items, nextId)}
        /\ nextId' = nextId + 1 + Len(req[r].cards.items)
        /\ Send(r, 200, [success |-> TRUE])
        /\ lastSave' = [lastSave EXCEPT ![req[r].branch] =
                                          [known |-> TRUE, cards |-> req[r].cards.items]]
        /\ UNCHANGED <<lastUpload, lastOffer>>
     \/ /\ Send(r, 500, [error |-> "Failed to save cards"])
        /\ UNCHANGED <<CardData, nextId, history>>
  /\ UNCHANGED <<req, Image, Offer, ContactInquiry, VideoReview, adapters, config, now, left>>

\* ----------------------------------------------------- GET /api/load-cards

LoadCardsQueries == [kind : {"load-cards"}, branch : BranchInputs]

\* A load that answers 404 for an unknown branch.
LoadCardsReplyNotFound(hit) ==
  IF hit.found THEN [status |-> 200, body |-> [cards |-> hit.doc.cards]]
  ELSE [status |-> 404, body |-> [error |-> "Not found"]]

\* Line 285: the answer to what findOne resolved with.
LoadCardsReply(hit) ==
  [status |-> 200, body |-> [cards |-> IF hit.found THEN hit.doc.cards ELSE <<>>]]

LoadCards(r) ==
  \E q \in LoadCardsQueries :
    /\ Begin(r, q)
    /\ IF ~Truthy(q.branch)
         THEN Send(r, 400, [error |-> "Missing branch"])
         ELSE \/ LET reply == LoadCardsReply(FindOne({d \in CardData : d.branch = q.branch}))
                 IN Send(r, reply.status, reply.body)
              \/ Send(r, 500, [error |-> "Failed to load cards"])
    /\ UNCHANGED <<store, adapters, config, now, nextId, history>>

\* ---------------------------------------------------------- /api/offers/latest

\* A destructuring default: v = '' .
Default(v) == IF v = Undefined THEN "" ELSE v
\* v || ''
OrEmpty(v) == IF Truthy(v) THEN v ELSE ""

JsonNull == [null |-> TRUE]

LatestOffers(coll) == {d \in coll : d.key = "latestOffer"}

\* The shape lines 296-301 and 318-323 answer with.
OfferJson(offer) ==
  [title |-> OrEmpty(offer.title), details |-> OrEmpty(offer.details),
   imageUrl |-> OrEmpty(offer.imageUrl), updatedAt |-> offer.updatedAt]

\* Line 295: null when there is no offer.
OfferOrNull(hit) == IF hit.found THEN OfferJson(hit.doc) ELSE JsonNull

GetOffer(r) ==
  /\ Begin(r, [kind |-> "get-offer"])
  /\ \/ Send(r, 200, OfferOrNull(FindOne(LatestOffers(Offer))))
     \/ Send(r, 500, [error |-> "Failed to load offer"])
  /\ UNCHANGED <<store, adapters, config, now, nextId, history>>

OfferInputs ==
  [kind : {"post-offer"}, title : {Undefined, "", "t1"},
   details : {Undefined, "d"}, imageUrl : {Undefined, "i"}]

\* The guard of line 309, on the defaulted fields.
OfferRejects(q) ==
  ~Truthy(Default(q.title)) /\ ~Truthy(Default(q.details)) /\ ~Truthy(Default(q.imageUrl))

\* The update document of line 315.
OfferUpdate(q, date) ==
  [key |-> "latestOffer", title |-> Default(q.title), details |-> Default(q.details),
   imageUrl |-> Default(q.imageUrl), updatedAt |-> date]

PostOfferValidate(r) ==
  \E q \in OfferInputs :
    /\ Begin(r, q)
    /\ IF OfferRejects(q)
         THEN Send(r, 400, [error |-> "Nothing to save"])
         ELSE Goto(r, "offer_query", [update |-> OfferUpdate(q, now)])
    /\ UNCHANGED <<store, adapters, config, now, nextId, history>>

\* findOneAndUpdate with upsert, first half: the store looks for a document that
\* matches { key: 'latestOffer' }. The store runs an upsert as this query and
\* then an update or an insert, and another operation can come between them.
PostOfferQuery(r) ==
  /\ pc[r] = "offer_query"
  /\ Goto(r, "offer_write", [update |-> loc[r].update,
                             matched |-> LatestOffers(Offer) # {}])
  /\ UNCHANGED <<req, store, adapters, config, now, nextId, left, history>>

\* An upsert that keeps the stored value of a field the update leaves empty.
UpsertOfferMerging(coll, matched, update, id) ==
  LET cur == FindOne(LatestOffers(coll))
      fresh == [_id |-> id] @@ update
      changed == [f \in DOMAIN cur.doc |->
                    IF f = "_id" THEN cur.doc[f]
                    ELSE IF f \in {"title", "details", "imageUrl"} /\ update[f] = ""
                      THEN cur.doc[f]
                    ELSE update[f]]
  IN IF cur.found
       THEN [coll |-> (coll \ {cur.doc}) \cup {changed}, doc |-> changed]
       ELSE [coll |-> coll \cup {fresh}, doc |-> fresh]

\* An upsert on a collection without the unique index: one that had matched
\* nothing inserts, whatever the collection holds by then.
UpsertOfferWithoutUniqueIndex(coll, matched, update, id) ==
  LET cur == FindOne(LatestOffers(coll))
      fresh == [_id |-> id] @@ update
      changed == [_id |-> cur.doc._id] @@ update
  IN IF matched /\ cur.found
       THEN [coll |-> (coll \ {cur.doc}) \cup {changed}, doc |-> changed]
       ELSE [coll |-> coll \cup {fresh}, doc |-> fresh]

\* Second half: the document that matches now is updated; with none, one is
\* inserted. An upsert that had matched nothing and finds the key taken when it
\* inserts is stopped by the unique index of offerSchema.key: it updates the
\* document that took the key (or rejects with a duplicate key error, the
\* failing branch of PostOfferWrite). [coll, doc]: the collection and the
\* document as written (new: true).
UpsertOffer(coll, matched, update, id) ==
  LET cur == FindOne(LatestOffers(coll))
      fresh == [_id |-> id] @@ update
      changed == [_id |-> cur.doc._id] @@ update
  IN IF cur.found
       THEN [coll |-> (coll \ {cur.doc}) \cup {changed}, doc |-> changed]
       ELSE [coll |-> coll \cup {fresh}, doc |-> fresh]

Max(a, b) == IF a >= b THEN a ELSE b

PostOfferWrite(r) ==
  /\ pc[r] = "offer_write"
  /\ \/ LET up == UpsertOffer(Offer, loc[r].matched, loc[r].update, nextId + 1)
        IN /\ Offer' = up.coll
           /\ nextId' = IF up.doc._id = nextId + 1 THEN nextId + 1 ELSE nextId
           /\ Send(r, 200, OfferJson(up.doc))
           /\ lastOffer' = [op |-> "post", posted |-> req[r], deletes |-> 0,
                            matched |-> loc[r].matched,
                            before |-> FindOne(LatestOffers(Offer)),
                            newest |-> Max(lastOffer.newest, up.doc.updatedAt)]
     \/ /\ Send(r, 500, [error |-> "Failed to save offer"])
        /\ UNCHANGED <<Offer, nextId, lastOffer>>
  /\ UNCHANGED <<req, Image, CardData, ContactInquiry, VideoReview, adapters, config, now,
                 left, lastUpload, lastSave>>

\* A delete that removes nothing.
DeleteOneOfferNone(coll) == coll

\* Offer.deleteOne({ key: 'latestOffer' }) on a collection: the first match goes.
DeleteOneOffer(coll) ==
  LET cur == FindOne(LatestOffers(coll))
  IN IF cur.found THEN coll \ {cur.doc} ELSE coll

DeleteOffer(r) ==
  /\ Begin(r, [kind |-> "delete-offer"])
  /\ \/ /\ Offer' = DeleteOneOffer(Offer)
        /\ Send(r, 200, [success |-> TRUE])
        /\ lastOffer' = [lastOffer EXCEPT !.op = "delete", !.deletes = @ + 1,
                                          !.before = FindOne(LatestOffers(Offer))]
     \/ /\ Send(r, 500, [error |-> "Failed to delete offer"])
        /\ UNCHANGED <<Offer, lastOffer>>
  /\ UNCHANGED <<Image, CardData, ContactInquiry, VideoReview, adapters, config, now,
                 nextId, lastUpload, lastSave>>

\* The wall clock moves on.
Tick ==
  /\ now < MaxClock
  /\ now' = now + 1
  /\ UNCHANGED <<pc, req, loc, resp, store, adapters, config, nextId, left, history>>

\* ------------------------------------------------------ /api/contact/inquiries

InquiryInputs ==
  [kind : {"post-inquiry"}, name : {Undefined, "", "A"}, email : {Undefined, "", "a@b.com"},
   phone : {Undefined, "555"}, message : {Undefined, "", "hi"}]

\* The guard of line 342.
InquiryRejects(q) == ~Truthy(q.name) \/ ~Truthy(q.email) \/ ~Truthy(q.message)

\* The guard without its tests of the addresses.
MailConfiguredByTransporterOnly == mailTransporter

\* The guard of line 350.
MailConfigured == mailTransporter /\ Truthy(CONTACT_TO_EMAIL) /\ Truthy(CONTACT_FROM_EMAIL)

PostInquiryValidate(r) ==
  \E q \in InquiryInputs :
    /\ Begin(r, q)
    /\ IF InquiryRejects(q)
         THEN Send(r, 400, [error |-> "Missing required fields"])
         ELSE Goto(r, "inquiry_create", NoLoc)
    /\ UNCHANGED <<store, adapters, config, now, nextId, history>>

\* await ContactInquiry.create(...), then line 349-350: without a configured
\* mail the 201 goes out with emailSent false.
PostInquiryCreate(r) ==
  /\ pc[r] = "inquiry_create"
  /\ \/ LET inquiry == [_id |-> nextId + 1, name |-> req[r].name, email |-> req[r].email,
                        phone |-> Default(req[r].phone), message |-> req[r].message,
                        createdAt |-> now]
        IN /\ ContactInquiry' = ContactInquiry \cup {inquiry}
           /\ nextId' = nextId + 1
           /\ IF MailConfigured
                THEN Goto(r, "inquiry_sendMail", [inquiry |-> inquiry])
                ELSE Send(r, 201, [inquiry |-> inquiry, emailSent |-> FALSE])
     \/ /\ Send(r, 500, [error |-> "Failed to save inquiry"])
        /\ UNCHANGED <<ContactInquiry, nextId>>
  /\ UNCHANGED <<req, Image, CardData, Offer, VideoReview, adapters, config, now, left, history>>


\* await mailTransporter.sendMail(...): a rejection is logged and swallowed.
PostInquirySendMail(r) ==
  /\ pc[r] = "inquiry_sendMail"
  /\ \/ /\ outbox' = outbox \cup {[from |-> CONTACT_FROM_EMAIL, to |-> CONTACT_TO_EMAIL,
                                   replyTo |-> req[r].email, inquiry |-> loc[r].inquiry._id]}
        /\ Send(r, 201, [inquiry |-> loc[r].inquiry, emailSent |-> TRUE])
     \/ /\ Send(r, 201, [inquiry |-> loc[r].inquiry, emailSent |-> FALSE])
        /\ UNCHANGED outbox
  /\ UNCHANGED <<req, store, cloud, config, now, nextId, left, history>>

GetInquiries(r) ==
  /\ Begin(r, [kind |-> "get-inquiries"])
  /\ \/ \E inquiries \in SortBy(ContactInquiry, "createdAt", -1) : Send(r, 200, inquiries)
     \/ Send(r, 500, [error |-> "Failed to load inquiries"])
  /\ UNCHANGED <<store, adapters, config, now, nextId, history>>

\* ------------------------------------------------------------------ /api/videos

VideoInputs == [kind : {"post-video"}, url : {Undefined, "", "v1"}, title : {Undefined, "clip"}]

\* The guard of line 415.
VideoRejects(q) == ~Truthy(q.url)

PostVideoValidate(r) ==
  \E q \in VideoInputs :
    /\ Begin(r, q)
    /\ IF VideoRejects(q)
         THEN Send(r, 400, [error |-> "Missing video URL"])
         ELSE Goto(r, "video_create", NoLoc)
    /\ UNCHANGED <<store, adapters, config, now, nextId, history>>

PostVideoCreate(r) ==
  /\ pc[r] = "video_create"
  /\ \/ LET video == [_id |-> nextId + 1, url |-> req[r].url, title |-> Default(req[r].title),
                      fileName |-> "", mimeType |-> "", publicId |-> "", uploadedAt |-> now]
        IN /\ VideoReview' = VideoReview \cup {video}
           /\ nextId' = nextId + 1
           /\ Send(r, 201, video)
     \/ /\ Send(r, 500, [error |-> "Failed to save video"])
        /\ UNCHANGED <<VideoReview, nextId>>
  /\ UNCHANGED <<req, Image, CardData, Offer, ContactInquiry, adapters, config, now, left, history>>

GetVideos(r) ==
  /\ Begin(r, [kind |-> "get-videos"])
  /\ \/ \E videos \in SortBy(VideoReview, "uploadedAt", -1) : Send(r, 200, videos)
     \/ Send(r, 500, [error |-> "Failed to load videos"])
  /\ UNCHANGED <<store, adapters, config, now, nextId, history>>

\* ------------------------------------------------------------- the system

\* The (cardNum, slot) pairs an accepted upload can name.
Pairs == {0, 1, 2} \X {"before", "after", "side"}

\* Lines 68-104: the mail settings the process starts with. The transporter
\* exists when SMTP_HOST and CONTACT_TO_EMAIL are set and createTransport did
\* not throw; the sender falls back to SMTP_USER.
Startup(host, to, from, user, threw) ==
  /\ CONTACT_TO_EMAIL = to
  /\ CONTACT_FROM_EMAIL = (IF Truthy(from) THEN from ELSE IF Truthy(user) THEN user ELSE "")
  /\ mailTransporter = (Truthy(host) /\ Truthy(to) /\ ~threw)

\* The server has started on empty collections; the clients will issue n requests.
Started(n) ==
  /\ pc = [r \in Reqs |-> "idle"]
  /\ req = [r \in Reqs |-> NoReq]
  /\ loc = [r \in Reqs |-> NoLoc]
  /\ resp = [r \in Reqs |-> NoResp]
  /\ Image = {} /\ CardData = {} /\ Offer = {} /\ ContactInquiry = {} /\ VideoReview = {}
  /\ cloud = {} /\ outbox = {}
  /\ now = 0 /\ nextId = 0 /\ left = n
  /\ lastUpload = [p \in Pairs |-> "none"]
  /\ lastSave = [b \in Branches |-> [known |-> FALSE, cards |-> <<>>]]
  /\ lastOffer = [op |-> "none", posted |-> NoReq, deletes |-> 0, matched |-> FALSE,
                  before |-> [found |-> FALSE], newest |-> 0]

\* Started without any mail setting.
Init(n) == Started(n) /\ Startup("", "", "", "", FALSE)

\* Started with the mail fully set up, or not at all.
InitMailOnOff(n) ==
  /\ Started(n)
  /\ \E on \in BOOLEAN :
       IF on THEN Startup("smtp.x", "to@x", "from@x", "user", FALSE)
       ELSE Startup("", "", "", "", FALSE)

\* Started with any mail settings.
InitMail(n) ==
  /\ Started(n)
  /\ \E host \in {"", "smtp.x"}, to \in {"", "to@x"}, from \in {"", "from@x"},
        user \in {"", "user"}, threw \in BOOLEAN :
       Startup(host, to, from, user, threw)

GalleryStep(r) ==
  \/ UploadValidate(r) \/ UploadToCloudinary(r) \/ UploadDeleteMany(r)
  \/ UploadImageSave(r) \/ UploadFindOne(r) \/ UploadCardSave(r)
  \/ GetImages(r)
  \/ SaveCardsValidate(r) \/ SaveCardsDeleteMany(r) \/ SaveCardsInsert(r)
  \/ LoadCards(r)
  \/ Finish(r)

OfferStep(r) ==
  \/ GetOffer(r)
  \/ PostOfferValidate(r) \/ PostOfferQuery(r) \/ PostOfferWrite(r)
  \/ DeleteOffer(r)
  \/ Finish(r)

ContactStep(r) ==
  \/ PostInquiryValidate(r) \/ PostInquiryCreate(r) \/ PostInquirySendMail(r)
  \/ GetInquiries(r)
  \/ Finish(r)

VideoStep(r) ==
  \/ PostVideoValidate(r) \/ PostVideoCreate(r)
  \/ GetVideos(r)
  \/ Finish(r)

\* The gallery routes, requests interleaved.
NextGallery == \E r \in Reqs : GalleryStep(r)
SpecGallery == Init(ShortRun) /\ [][NextGallery]_vars

\* The gallery routes, one request at a time.
NextGallerySeq == \E r \in SeqReqs : GalleryStep(r)
SpecGallerySeq == Init(LongRun) /\ [][NextGallerySeq]_vars

\* The offer routes, requests interleaved.
NextOffer == Tick \/ \E r \in Reqs : OfferStep(r)
SpecOffer == Init(ShortRun) /\ [][NextOffer]_vars

\* The offer routes, one request at a time.
NextOfferSeq == Tick \/ \E r \in SeqReqs : OfferStep(r)
SpecOfferSeq == Init(LongRun) /\ [][NextOfferSeq]_vars

\* The contact routes, one request at a time, under any mail settings.
NextContact == Tick \/ \E r \in SeqReqs : ContactStep(r)
SpecContact == InitMail(LongRun) /\ [][NextContact]_vars

\* Every route, one request at a time.
Next ==
  \/ \E r \in SeqReqs : GalleryStep(r) \/ OfferStep(r) \/ ContactStep(r) \/ VideoStep(r)
Spec == InitMailOnOff(ShortRun) /\ [][Next]_vars

\* ================================================================== claims

\* The requests that have been answered and not yet read by the client.
Answered(kind) == {r \in Reqs : pc[r] = "done" /\ req[r].kind = kind}

\* The query string of a card number.
CardNumQuery(n) == ToString(n)

\* C1: when uploads run one at a time, a GET /api/images?cardNum=X&slot=Y that
\* is answered (200) for a pair whose last upload returned 201 holds exactly one
\* ImageSlot record, and its url is the one that upload returned.
C1_LatestUploadIsTheOnlyImage ==
  \A r \in Answered("images") :
    \A p \in Pairs :
      ( /\ resp[r].status = 200
        /\ req[r].cardNum = CardNumQuery(p[1])
        /\ req[r].slot = p[2]
        /\ lastUpload[p] \notin {"none", "failed"} )
      => /\ Len(resp[r].body) = 1
         /\ resp[r].body[1].url = lastUpload[p]
         /\ resp[r].body[1].cardNum = p[1]
         /\ resp[r].body[1].slot = p[2]

\* C1's case: the pair (1, before) was uploaded twice, nothing else was, and the
\* GET returns the second upload's url.
C1_Witness ==
  \E r \in Answered("images") :
    /\ resp[r].status = 200
    /\ req[r].cardNum = "1" /\ req[r].slot = "before"
    /\ cloud = {SecureUrl(1), SecureUrl(2)}
    /\ lastUpload[<<1, "before">>] = SecureUrl(2)
    /\ \A p \in Pairs \ {<<1, "before">>} : lastUpload[p] = "none"
    /\ Len(resp[r].body) = 1
    /\ resp[r].body[1].url = SecureUrl(2)

\* The cards of a response without their generated _id.
WithoutIds(cards) ==
  [i \in 1..Len(cards) |-> [f \in DOMAIN cards[i] \ {"_id"} |-> cards[i][f]]]

\* Posted cards as the schema keeps them, without the generated _id.
AsStored(items) == WithoutIds([i \in 1..Len(items) |-> CastCard(items[i], 0)])

\* C2: when requests run one at a time, a GET /api/load-cards that is answered
\* (200) for a branch returns the cards of the last successful save-cards for
\* that branch (as the schema keeps them: its paths, cardNum a number, an _id
\* added), as long as no upload has written to the branch since.
C2_LoadReturnsLastSuccessfulSave ==
  \A r \in Answered("load-cards") :
    ( /\ resp[r].status = 200
      /\ req[r].branch \in Branches
      /\ lastSave[req[r].branch].known )
    => WithoutIds(resp[r].body.cards) = AsStored(lastSave[req[r].branch].cards)

\* C6: a GET /api/load-cards for a branch that has no BranchCardSet leaves the
\* collection as it is and, unless the store read itself rejects (500), answers
\* 200 {cards: []}; it never answers 404.
C6_UnknownBranchLoadsEmpty ==
  [][\A r \in Reqs :
       ( /\ pc[r] = "idle" /\ pc'[r] # "idle"
         /\ req'[r].kind = "load-cards"
         /\ Truthy(req'[r].branch)
         /\ \A d \in CardData : d.branch # req'[r].branch )
       => /\ pc'[r] = "done"
          /\ CardData' = CardData
          /\ resp'[r].status \in {200, 500}
          /\ resp'[r].status = 200 => resp'[r].body = [cards |-> <<>>]
          /\ resp'[r].status = 500 => resp'[r].body = [error |-> "Failed to load cards"]]_vars

\* C6's case: cards are stored for b1, none for b2, and the load of b2 is
\* answered 200 with no cards.
C6_Witness ==
  \E r \in Answered("load-cards") :
    /\ req[r].branch = "b2"
    /\ \E d \in CardData : d.branch = "b1" /\ Len(d.cards) > 0
    /\ \A d \in CardData : d.branch # "b2"
    /\ resp[r] = [status |-> 200, body |-> [cards |-> <<>>]]

\* C8: the ImageSlot collection holds at most one record per (cardNum, slot),
\* also while uploads interleave.
C8_OneImagePerPair ==
  \A d, e \in Image : (d.cardNum = e.cardNum /\ d.slot = e.slot) => d = e

\* C9: the BranchCardSet collection holds at most one record per branch, also
\* while save-cards and uploads interleave.
C9_OneCardSetPerBranch ==
  \A d, e \in CardData : d.branch = e.branch => d = e

\* C3: when requests run one at a time, a GET /api/offers/latest answered (200)
\* after a successful POST returns the posted title, details and imageUrl, an
\* omitted field as "", and an updatedAt no older than any stored before.
C3_GetReturnsPostedOffer ==
  \A r \in Answered("get-offer") :
    (resp[r].status = 200 /\ lastOffer.op = "post")
    => LET posted == lastOffer.posted
           text(v) == IF v = Undefined THEN "" ELSE v
       IN /\ resp[r].body # JsonNull
          /\ resp[r].body.title = text(posted.title)
          /\ resp[r].body.details = text(posted.details)
          /\ resp[r].body.imageUrl = text(posted.imageUrl)
          /\ resp[r].body.updatedAt >= lastOffer.newest
          /\ lastOffer.before.found => resp[r].body.updatedAt >= lastOffer.before.doc.updatedAt

\* C3's case: an offer with details was stored, a POST without details replaced
\* it, and the GET returns "" for the details.
C3_Witness ==
  \E r \in Answered("get-offer") :
    /\ resp[r].status = 200
    /\ lastOffer.op = "post"
    /\ lastOffer.posted.details = Undefined
    /\ lastOffer.before.found
    /\ lastOffer.before.doc.details = "d"
    /\ resp[r].body.details = ""
    /\ resp[r].body.updatedAt > lastOffer.before.doc.updatedAt

\* C4: when requests run one at a time, a DELETE /api/offers/latest whose store
\* call resolves answers 200 {success: true} whether or not an offer existed,
\* and after it every answered (200) GET returns null until a POST succeeds.
C4_DeleteIsIdempotent ==
  /\ \A r \in Answered("delete-offer") :
       /\ resp[r].status \in {200, 500}
       /\ resp[r].status = 200 =>
            (resp[r].body = [success |-> TRUE] /\ lastOffer.op = "delete" /\ Offer = {})
       /\ resp[r].status = 500 => resp[r].body = [error |-> "Failed to delete offer"]
  /\ \A r \in Answered("get-offer") :
       (resp[r].status = 200 /\ lastOffer.op = "delete") => resp[r].body = JsonNull

\* C4's case: a second DELETE in a row, on the empty collection, was answered
\* {success: true} and the GET after it returns null.
C4_Witness ==
  \E r \in Answered("get-offer") :
    /\ lastOffer.op = "delete"
    /\ lastOffer.deletes = 2
    /\ ~lastOffer.before.found
    /\ resp[r] = [status |-> 200, body |-> JsonNull]

ListedInvalid(q) ==
  LET missing(v) == v = Undefined
      empty(v) == v = Undefined \/ v = ""
  IN CASE q.kind = "upload" ->
            \/ ~q.file \/ missing(q.branch) \/ missing(q.cardNum) \/ missing(q.slot)
            \/ ~ToNumber(q.cardNum).finite
       [] q.kind = "save-cards" -> missing(q.branch) \/ ~q.cards.isArray
       [] q.kind = "load-cards" -> missing(q.branch)
       [] q.kind = "post-offer" -> empty(q.title) /\ empty(q.details) /\ empty(q.imageUrl)
       [] q.kind = "post-inquiry" -> empty(q.name) \/ empty(q.email) \/ empty(q.message)
       [] q.kind = "post-video" -> missing(q.url)
       [] OTHER -> FALSE

\* C7: a request with one of the listed defects is answered 400, and a request
\* answered 400 is answered by its first step, which leaves the five
\* collections, Cloudinary and the mail relay as they were.
C7_RejectedRequestsTouchNothing ==
  [][\A r \in Reqs :
       /\ (pc[r] = "idle" /\ pc'[r] # "idle" /\ ListedInvalid(req'[r])) =>
            (pc'[r] = "done" /\ resp'[r].status = 400)
       /\ (pc[r] # "done" /\ pc'[r] = "done" /\ resp'[r].status = 400) =>
            (pc[r] = "idle" /\ UNCHANGED <<store, adapters, nextId>>)]_vars

\* C7's case: an inquiry is stored, and an upload without its slot was answered
\* 400.
C7_Witness ==
  \E r \in Answered("upload") :
    /\ req[r].slot = Undefined
    /\ resp[r].status = 400
    /\ ContactInquiry # {}

\* C10: the Offer collection holds at most one document, and its key is
\* "latestOffer", also while POSTs and DELETEs interleave.
C10_AtMostOneOffer ==
  /\ Cardinality(Offer) <= 1
  /\ \A d \in Offer : d.key = "latestOffer"

\* C10's case: two POSTs both found no offer; the second to write met the
\* first's document, and one offer is stored.
C10_Witness ==
  /\ lastOffer.op = "post"
  /\ ~lastOffer.matched
  /\ lastOffer.before.found
  /\ Cardinality(Offer) = 1

\* The awaits of the upload that call the store.
UploadStoreSteps == {"upload_deleteMany", "upload_imageSave", "upload_findOne", "upload_cardSave"}

\* Whether a card of some BranchCardSet carries the url in an image path.
CardCarries(coll, url) ==
  \E d \in coll : \E i \in 1..Len(d.cards) :
    \/ "beforeImg" \in DOMAIN d.cards[i] /\ d.cards[i].beforeImg = url
    \/ "afterImg" \in DOMAIN d.cards[i] /\ d.cards[i].afterImg = url

\* C11: in every step of a POST /api/upload, also while requests interleave:
\* the steps up to and including the remote upload leave the ImageSlot and the
\* BranchCardSet collections as they are; a remote upload that fails ends the
\* request with 500 and adds no asset, one that succeeds hands the handler a new
\* asset; every store step runs with that asset already held by Cloudinary; and
\* a store step that fails ends the request with 500, changes no collection,
\* and leaves the asset at Cloudinary, carried by no card of any BranchCardSet.
\* No step of the route removes an asset.
C11_RemoteUploadBeforeStore ==
  [][\A r \in Reqs :
       /\ (pc[r] = "idle" /\ pc'[r] # "idle" /\ req'[r].kind = "upload") =>
            /\ pc'[r] \in {"done", "upload_cloudinary"}
            /\ UNCHANGED <<Image, CardData, cloud>>
       /\ (pc[r] = "upload_cloudinary" /\ pc'[r] # pc[r]) =>
            /\ UNCHANGED <<Image, CardData>>
            /\ \/ /\ cloud' = cloud
                  /\ pc'[r] = "done"
                  /\ resp'[r] = [status |-> 500, body |-> [error |-> "Image upload failed"]]
               \/ /\ pc'[r] = "upload_deleteMany"
                  /\ loc'[r].secure_url \notin cloud
                  /\ cloud' = cloud \cup {loc'[r].secure_url}
       /\ (pc[r] \in UploadStoreSteps /\ pc'[r] # pc[r]) =>
            /\ loc[r].secure_url \in cloud
            /\ cloud' = cloud
            /\ (pc'[r] = "done" /\ resp'[r].status # 201) =>
                 /\ resp'[r] = [status |-> 500, body |-> [error |-> "Image upload failed"]]
                 /\ UNCHANGED <<Image, CardData>>
                 /\ ~CardCarries(CardData', loc[r].secure_url)]_vars

\* C11's case: the only request issued is an upload whose asset Cloudinary
\* holds and whose ImageSlot record was inserted; a later store call failed, the
\* request was answered 500, and no BranchCardSet exists.
C11_Witness ==
  \E r \in Answered("upload") :
    /\ left = ShortRun - 1
    /\ \A s \in Reqs \ {r} : pc[s] = "idle"
    /\ resp[r].status = 500
    /\ cloud = {SecureUrl(1)}
    /\ \E d \in Image : d.url = SecureUrl(1)
    /\ CardData = {}

\* C12: when requests run one at a time, the cardData.save() of an upload
\* answered 201 for (branch, cardNum, slot) leaves one BranchCardSet for the
\* branch; it has one more card than before when no card had that cardNum and as
\* many otherwise; a card with that cardNum holds the returned url in beforeImg
\* (slot before) or afterImg (slot after) and is otherwise the card it was (when
\* appended: a cardNum and a generated _id only); every other card of the branch
\* and the BranchCardSet of every other branch are as they were.
C12_UploadSetsOneImagePath ==
  [][\A r \in Reqs :
       (pc[r] = "upload_cardSave" /\ pc'[r] = "done" /\ resp'[r].status = 201) =>
         LET branch == resp'[r].body.branch
             cardNum == resp'[r].body.cardNum
             slot == resp'[r].body.slot
             url == resp'[r].body.url
             path == IF slot = "before" THEN "beforeImg" ELSE "afterImg"
             old == {d \in CardData : d.branch = branch}
             new == {d \in CardData' : d.branch = branch}
             before == IF old = {} THEN <<>> ELSE (CHOOSE d \in old : TRUE).cards
             after == (CHOOSE d \in new : TRUE).cards
             had == \E i \in 1..Len(before) :
                      "cardNum" \in DOMAIN before[i] /\ before[i].cardNum = cardNum
         IN /\ branch = req[r].branch
            /\ cardNum = ToNumber(req[r].cardNum).n
            /\ slot = req[r].slot /\ slot \in {"before", "after"}
            /\ Cardinality(old) <= 1 /\ Cardinality(new) = 1
            /\ Len(after) = (IF had THEN Len(before) ELSE Len(before) + 1)
            /\ \E k \in 1..Len(after) :
                 /\ had <=> k <= Len(before)
                 /\ {"cardNum", path} \subseteq DOMAIN after[k]
                 /\ after[k].cardNum = cardNum
                 /\ after[k][path] = url
                 /\ IF had
                      THEN /\ DOMAIN after[k] \ {path} = DOMAIN before[k] \ {path}
                           /\ \A f \in DOMAIN after[k] \ {path} : after[k][f] = before[k][f]
                      ELSE DOMAIN after[k] = {"cardNum", path, "_id"}
                 /\ \A i \in 1..Len(before) : i # k => after[i] = before[i]
            /\ {d \in CardData' : d.branch # branch} = {d \in CardData : d.branch # branch}]_vars

\* C12's case: two cards were saved for a branch, the second with cardNum 1 and
\* a name; an upload for (that branch, 1, before) was answered 201, and the
\* branch still has two cards, the first as saved, the second with its name and
\* the returned url as beforeImg.
C12_Witness ==
  \E r \in Answered("upload") :
    /\ resp[r].status = 201
    /\ req[r].slot = "before"
    /\ \E d \in CardData :
         /\ d.branch = req[r].branch
         /\ Len(d.cards) = 2
         /\ d.cards[1].cardNum = 2 /\ d.cards[1].beforeImg = "x"
         /\ d.cards[2].cardNum = 1 /\ d.cards[2].name = "Ann"
         /\ d.cards[2].beforeImg = resp[r].body.url

\* The image path of a card that a slot names.
SlotPath(slot) == IF slot = "before" THEN "beforeImg" ELSE "afterImg"

\* C13: when requests run one at a time and an upload for (branch B, cardNum,
\* slot) has been answered 201, the ImageSlot collection holds one record for
\* (cardNum, slot), the one of this upload, whatever branch the earlier records
\* of the pair were uploaded for: no card with that cardNum in the BranchCardSet
\* of another branch has, in the path of the slot, a url that an ImageSlot
\* record carries.
C13_ImagesAreKeyedWithoutBranch ==
  \A r \in Answered("upload") :
    resp[r].status = 201 =>
      LET cardNum == resp[r].body.cardNum
          slot == resp[r].body.slot
          path == SlotPath(slot)
      IN /\ \A im \in Image :
              (im.cardNum = cardNum /\ im.slot = slot) => im.url = resp[r].body.url
         /\ \A d \in CardData :
              d.branch # req[r].branch =>
                \A i \in 1..Len(d.cards) :
                  ( /\ {"cardNum", path} \subseteq DOMAIN d.cards[i]
                    /\ d.cards[i].cardNum = cardNum )
                  => \A im \in Image : im.url # d.cards[i][path]

\* C13's case: two uploads and nothing else, both answered 201, for (b1, 1,
\* before) and then (b2, 1, before): the card of b1 still carries the first
\* url, the card of b2 the second, and the only ImageSlot record carries the
\* second.
C13_Witness ==
  \E r \in Answered("upload") :
    /\ left = LongRun - 2
    /\ resp[r].status = 201
    /\ req[r].branch = "b2" /\ req[r].slot = "before"
    /\ resp[r].body.url = SecureUrl(2)
    /\ cloud = {SecureUrl(1), SecureUrl(2)}
    /\ \E d \in CardData :
         /\ d.branch = "b1"
         /\ Len(d.cards) = 1
         /\ d.cards[1].cardNum = 1
         /\ d.cards[1].beforeImg = SecureUrl(1)
    /\ \E d \in CardData :
         /\ d.branch = "b2"
         /\ d.cards[1].beforeImg = SecureUrl(2)
    /\ \A im \in Image : im.url = SecureUrl(2)
    /\ Cardinality(Image) = 1

====
